---- MODULE Spec2Model ----
(***************************************************************************)
(* A model of src/createjs/shape.js: the createjs.Shape leaf (a vector     *)
(* geometry with its render cache and mask consumers) and the              *)
(* createjs.Bitmap leaf (an image, its source rectangle and the            *)
(* DrawParameters buffer handed to the renderer).                          *)
(*                                                                         *)
(* One leaf is constructed in Init (leaf says which class) and every       *)
(* action is one method call on it, or one event delivered to it.          *)
(* The variable last records the call that was made last: its name, its    *)
(* argument, whether it ended in a TypeError, and the calls it made on     *)
(* its collaborators, in order.                                            *)
(***************************************************************************)
EXTENDS Integers, Sequences, FiniteSets, TLC

\* ---------------------------------------------------------------- bounds
NumGraphics == 2
MaxMasks == 1
NumOwners == 1
NumImages == 2
NumRects == 1
MaxStep == 2

\* ------------------------------------------------------------- constants
\* null for object references (ids start at 1)
Null == 0
\* null for array-valued fields (no array of the program holds a 0)
NullList == << 0 >>
\* the bit of the attach flag that asks for the mask consumers' caches
MASK_FLAG == 2
\* createjs.DisplayObject.DIRTY_SHAPE and DIRTY_MASK, two independent bits
DIRTY_SHAPE == 4
DIRTY_MASK == 8

Graphics == 1 .. NumGraphics
Owners == 1 .. NumOwners
\* the attach flags: bit 1 asks for the cache, bit 2 for the masks' caches
Flags == 0 .. 3
\* the attach flags a Bitmap is given (it only tests them for zero)
BitmapFlags == {0, 1}
Images == 1 .. NumImages
UserRects == 1 .. NumRects

VARIABLES
  leaf,           \* "Shape" or "Bitmap": the class of the leaf constructed
  \* ---- createjs.Shape
  graphics_,      \* this.graphics_: a Graphics id or Null
  masks_,         \* this.masks_: a sequence of Graphics ids or NullList
  owners,         \* getOwners(): a sequence of owner ids or NullList
  compositionId,  \* getCompositionId()
  shapeBox,       \* the bounding box set by setBoundingBox
  cached,         \* the Graphics objects holding a render cache
  \* ---- createjs.Bitmap
  image_,         \* this.image_: an image id or Null
  ready_,         \* this.ready_
  source_,        \* this.source_: a Rectangle id or Null
  rects,          \* the Rectangle objects: id -> <<x, y, width, height>>
  drawValues_,    \* this.drawValues_: a sequence of numbers or NullList
  bitmapBox,      \* the bounding box set by setBoundingBox
  composer_,      \* this.composer_: Null or TheComposer
  composerInput,  \* the image the composer applied the alpha map to
  output_,        \* this.output_: the renderer caching the image, or Null
  nominalBounds,  \* this['nominalBounds']: <<width, height>> or NullList
  alphaMapFilter, \* getAlphaMapFilter() is set
  loaded,         \* the images that are decoded (width and height known)
  listeners,      \* the images this leaf is registered on as a listener
  phase,          \* "constructing": inside the constructor;
                  \* "initialized": initializeBitmap_ has run;
                  \* "uninitialized": constructed without a value
  \* ---- both classes, in a build with createjs.USE_PIXEL_TEST
  hitTestPoint_,  \* this.hitTestPoint_: <<x, y>> or NullList
  hitTestResult_, \* this.hitTestResult_: This or Null
  \* ---- a second Bitmap, driven like this one and then left alone
  twin,           \* NullList, or what its DrawParameters were computed from
                  \* and their first eight slots
  \* ---- the call made last
  last

shapeVars == << graphics_, masks_, owners, compositionId, shapeBox,
                cached >>
bitmapVars == << image_, ready_, source_, rects, drawValues_, bitmapBox,
                 composer_, composerInput, output_, nominalBounds,
                 alphaMapFilter, loaded, listeners, phase >>
hitVars == << hitTestPoint_, hitTestResult_ >>
\* what no call on the leaf changes
fixed == << leaf, twin >>
vars == << fixed, hitVars, shapeVars, bitmapVars, last >>

\* ----------------------------------------------------------- collaborators
\* createjs.Graphics.box of a Graphics object: <<minX, minY, maxX, maxY>>
GraphicsBox(g) == << 0, 0, g, g + 1 >>

\* createjs.Graphics.isEmpty(): Graphics 1 is the empty path
GraphicsIsEmpty(g) == g = 1

\* the bounding box of a display object before any setBoundingBox
EmptyBox == << 0, 0, 0, 0 >>

\* createjs.DisplayObject.prototype.isVisible of the base class
BaseIsVisible == TRUE

\* createjs.DisplayObject.prototype.layout of the base class: the dirty
\* mask it returns for the incoming one
BaseLayout(dirty) == dirty

\* one call recorded in last.calls
Call(name, arg) == << name, arg >>

\* the record of a call: afterAttach says that the call made before it was
\* a handleAttach with a non-zero flag that returned
Done(op, arg, threw, calls) ==
  [op |-> op, arg |-> arg, threw |-> threw, calls |-> calls,
   afterAttach |-> (last.op = "handleAttach" /\ last.arg # 0
                      /\ ~last.threw)]

RECURSIVE CallsOn(_, _)
\* the calls of a given name made on each element of a list, in list order
CallsOn(name, list) ==
  IF list = << >> THEN << >>
  ELSE << Call(name, Head(list)) >> \o CallsOn(name, Tail(list))

Range(s) == { s[i] : i \in 1 .. Len(s) }

ListOf(l) == IF l = NullList THEN << >> ELSE l

\* ================================================================ Shape
\* createjs.Shape.prototype.isVisible
ShapeIsVisibleValue ==
  graphics_ # Null /\ ~GraphicsIsEmpty(graphics_) /\ BaseIsVisible

\* the composition test left out of setGraphics
HasCompositionAlways == TRUE

\* "if (composition)" in setGraphics: the shape belongs to a composition
HasComposition == compositionId # 0

\* every owner but the first marked
MarkOwnersButFirst(list) == CallsOn("markOwner", Tail(list))

\* owners[i].setDirty(DIRTY_MASK) for each owner, in the order of the list
MarkOwners(list) == CallsOn("markOwner", list)

\* createjs.Shape.prototype.setGraphics
ShapeSetGraphics(g) ==
  /\ leaf = "Shape"
  /\ IF owners = NullList
     THEN /\ UNCHANGED << graphics_, shapeBox >>
          /\ last' = Done("setGraphics", g, FALSE, << >>)
     ELSE IF ~HasComposition
     THEN /\ UNCHANGED << graphics_, shapeBox >>
          /\ last' = Done("setGraphics", g, FALSE, << >>)
     ELSE /\ graphics_' = g
          /\ IF g # Null
             THEN /\ shapeBox' = GraphicsBox(g)
                  /\ last' = Done("setGraphics", g, FALSE,
                                  MarkOwners(owners))
             ELSE /\ UNCHANGED shapeBox
                  /\ last' = Done("setGraphics", g, FALSE, << >>)
  /\ UNCHANGED << fixed, hitVars, masks_, owners, compositionId, cached,
                  bitmapVars >>

\* the mask consumers cached whatever the flag
AttachMasksAlways(flag) == ListOf(masks_)

\* the mask consumers handleAttach caches for a flag
AttachMasks(flag) ==
  IF (flag \div MASK_FLAG) % 2 = 1 /\ masks_ # NullList THEN masks_ ELSE << >>

\* createjs.Shape.prototype.handleAttach
ShapeHandleAttach(flag) ==
  /\ leaf = "Shape"
  /\ IF graphics_ = Null
     THEN \* graphics.cache(flag), or graphics.box, of null: a TypeError
          /\ last' = Done("handleAttach", flag, TRUE, << >>)
          /\ UNCHANGED << cached, shapeBox >>
     ELSE /\ IF flag # 0
             THEN /\ cached' = cached \cup {graphics_}
                                \cup Range(AttachMasks(flag))
                  /\ last' = Done("handleAttach", flag, FALSE,
                                  << Call("cache", graphics_) >>
                                    \o CallsOn("cache", AttachMasks(flag)))
             ELSE /\ UNCHANGED cached
                  /\ last' = Done("handleAttach", flag, FALSE, << >>)
          /\ shapeBox' = GraphicsBox(graphics_)
  /\ UNCHANGED << fixed, hitVars, graphics_, masks_, owners, compositionId,
                  bitmapVars >>

\* handleDetach without "this.graphics_ = null" and "this.masks_ = null"
ShapeDetachKeepsReferences(op) ==
  /\ UNCHANGED << graphics_, masks_ >>
  /\ cached' = (cached \ {graphics_}) \ Range(ListOf(masks_))
  /\ last' = Done(op, Null, FALSE,
                  (IF graphics_ # Null
                   THEN << Call("uncache", graphics_) >> ELSE << >>)
                    \o CallsOn("uncache", ListOf(masks_)))

\* the body of createjs.Shape.prototype.handleDetach, for the call op
ShapeDetach(op) ==
  /\ graphics_' = Null
  /\ masks_' = NullList
  /\ cached' = (cached \ {graphics_}) \ Range(ListOf(masks_))
  /\ last' = Done(op, Null, FALSE,
                  (IF graphics_ # Null
                   THEN << Call("uncache", graphics_) >> ELSE << >>)
                    \o CallsOn("uncache", ListOf(masks_)))

\* createjs.Shape.prototype.handleDetach
ShapeHandleDetach ==
  /\ leaf = "Shape"
  /\ ShapeDetach("handleDetach")
  /\ UNCHANGED << fixed, hitVars, owners, compositionId, shapeBox, bitmapVars >>

\* createjs.Shape.prototype.removeAllChildren
ShapeRemoveAllChildren ==
  /\ leaf = "Shape"
  /\ ShapeDetach("removeAllChildren")
  /\ UNCHANGED << fixed, hitVars, owners, compositionId, shapeBox, bitmapVars >>

\* the shape not marked when its geometry is dirty
LayoutCallsUnmarked(dirty, isDirty) ==
  << Call("isDirty", IF isDirty THEN 1 ELSE 0), Call("layout", dirty) >>

\* the calls layout makes on a shape with a geometry: graphics.isDirty(),
\* this.setDirty(DIRTY_SHAPE) if it answers true, and the base layout
LayoutCalls(dirty, isDirty) ==
  << Call("isDirty", IF isDirty THEN 1 ELSE 0) >>
    \o (IF isDirty THEN << Call("setDirty", DIRTY_SHAPE) >> ELSE << >>)
    \o << Call("layout", dirty) >>

\* createjs.Shape.prototype.layout, called with the dirty mask dirty;
\* isDirty is what graphics.isDirty() answers
ShapeLayout(dirty, isDirty) ==
  /\ leaf = "Shape"
  /\ IF graphics_ = Null
     THEN /\ last' = Done("layout", 0, FALSE, << >>)
          /\ UNCHANGED shapeBox
     ELSE /\ shapeBox' = IF isDirty THEN GraphicsBox(graphics_) ELSE shapeBox
          /\ last' = Done("layout", BaseLayout(dirty), FALSE,
                          LayoutCalls(dirty, isDirty))
  /\ UNCHANGED << fixed, hitVars, graphics_, masks_, owners, compositionId, cached,
                  bitmapVars >>

\* createjs.Shape.prototype.isVisible
ShapeIsVisible ==
  /\ leaf = "Shape"
  /\ last' = Done("isVisible", IF ShapeIsVisibleValue THEN 1 ELSE 0, FALSE,
                  << >>)
  /\ UNCHANGED << fixed, hitVars, shapeVars, bitmapVars >>

\* createjs.Shape.prototype.addGraphics
ShapeAddGraphics(g) ==
  /\ leaf = "Shape"
  /\ Len(ListOf(masks_)) < MaxMasks
  /\ IF g # Null
     THEN masks_' = ListOf(masks_) \o << g >>
     ELSE UNCHANGED masks_
  /\ last' = Done("addGraphics", g, FALSE, << >>)
  /\ UNCHANGED << fixed, hitVars, graphics_, owners, compositionId, shapeBox,
                  cached, bitmapVars >>

\* a display object takes this shape as its mask: the base class lists it
\* among the owners of the shape
ShapeAddOwner(o) ==
  /\ leaf = "Shape"
  /\ o \notin Range(ListOf(owners))
  /\ owners' = ListOf(owners) \o << o >>
  /\ last' = Done("addOwner", o, FALSE, << >>)
  /\ UNCHANGED << fixed, hitVars, graphics_, masks_, compositionId, shapeBox,
                  cached, bitmapVars >>

\* the composition the shape belongs to is set (1) or cleared (0)
ShapeSetCompositionId(c) ==
  /\ leaf = "Shape"
  /\ c # compositionId
  /\ compositionId' = c
  /\ last' = Done("setCompositionId", c, FALSE, << >>)
  /\ UNCHANGED << fixed, hitVars, graphics_, masks_, owners, shapeBox, cached,
                  bitmapVars >>

ShapeNext ==
  \/ \E g \in Graphics : ShapeSetGraphics(g)
  \/ ShapeSetGraphics(Null)
  \/ \E flag \in Flags : ShapeHandleAttach(flag)
  \/ ShapeHandleDetach
  \/ ShapeRemoveAllChildren
  \/ \E dirty \in {0, DIRTY_MASK}, isDirty \in BOOLEAN :
       ShapeLayout(dirty, isDirty)
  \/ ShapeIsVisible
  \/ \E g \in Graphics \cup {Null} : ShapeAddGraphics(g)
  \/ \E o \in Owners : ShapeAddOwner(o)
  \/ \E c \in {0, 1} : ShapeSetCompositionId(c)

\* =============================================================== Bitmap
\* the Rectangle that initializeBitmap_ creates with new createjs.Rectangle
OwnRect == NumRects + 1
Rects == 1 .. OwnRect

\* the only createjs.Composer a leaf holds at a time
TheComposer == 1

\* the dimensions an image has once it is decoded
NaturalWidth(i) == i
NaturalHeight(i) == NumImages + 1 - i

\* image.width and image.height: 0 until the image is decoded
Width(i, dec) == IF i \in dec THEN NaturalWidth(i) ELSE 0
Height(i, dec) == IF i \in dec THEN NaturalHeight(i) ELSE 0

\* the fields of a Rectangle <<x, y, width, height>>
RectX(r) == r[1]
RectY(r) == r[2]
RectWidth(r) == r[3]
RectHeight(r) == r[4]

\* the Rectangle objects of the application, as constructed
UserRect(r) == << r, r - 1, r + 1, r >>

\* the nominal bounds a generated class may carry
MaxNominal == 4
NominalChoices ==
  {NullList} \cup { << n, MaxNominal - n >> : n \in 0 .. MaxNominal }

RECURSIVE Ulp(_)
\* the spacing of the single-precision numbers around a non-negative integer
Ulp(x) == IF x < 16777216 THEN 1 ELSE 2 * Ulp(x \div 2)

\* the value a Float32Array slot holds after an integer is stored in it
\* (round to nearest, ties to even)
Float32(x) ==
  LET a == IF x < 0 THEN 0 - x ELSE x
      u == Ulp(a)
      q == a \div u
      r == a % u
      n == IF 2 * r < u THEN q
           ELSE IF 2 * r > u THEN q + 1
           ELSE IF q % 2 = 0 THEN q ELSE q + 1
  IN  IF x < 0 THEN 0 - (n * u) ELSE n * u

\* offsetX stored without the shift
Sar1Forgotten(x) == x

\* x >> 1 on a 32-bit integer: the lowest bit is dropped, the sign kept
Sar1(x) == (x - (x % 2)) \div 2

\* drawValues[i] = v on a typed array (an index outside it is ignored)
Store(dv, i, v) ==
  IF i + 1 \in DOMAIN dv THEN [dv EXCEPT ![i + 1] = Float32(v)] ELSE dv

RECURSIVE StoreAll(_, _, _)
\* typedArray.set(values): the values are stored from slot i on
StoreAll(dv, i, values) ==
  IF values = << >> THEN dv
  ELSE StoreAll(Store(dv, i, Head(values)), i + 1, Tail(values))

\* createjs.cloneFloat32Array(values)
CloneFloat32Array(values) == [k \in DOMAIN values |-> Float32(values[k])]

\* the offsets that align an image to the center of the nominal bounds:
\* slots 4 and 5 are written only when the difference is positive
Center(dv, width, height) ==
  IF nominalBounds = NullList THEN dv
  ELSE LET offsetX == nominalBounds[1] - width
           offsetY == nominalBounds[2] - height
           dx == IF offsetX > 0 THEN Store(dv, 4, Sar1(offsetX)) ELSE dv
       IN  IF offsetY > 0 THEN Store(dx, 5, Sar1(offsetY)) ELSE dx

\* the box slots taken from the source rectangle, not from the image
InitialValuesFromSource(source, width, height) ==
  << RectX(source), RectY(source), RectWidth(source), RectHeight(source),
     0, 0, RectWidth(source), RectHeight(source), 0, 0, 0, 0 >>

\* the array initializeBitmap_ clones into the DrawParameters buffer
InitialValues(source, width, height) ==
  << RectX(source), RectY(source), RectWidth(source), RectHeight(source),
     0, 0, width, height, 0, 0, 0, 0 >>

\* the array setSourceRect allocates when there is no buffer yet
EmptyValues == << 0, 0, 0, 0, 0, 0, 0, 0 >>

\* the rectangle's origin left out of the buffer
SourceRectValuesNoOrigin(rectangle, width, height) ==
  << 0, 0, RectWidth(rectangle), RectHeight(rectangle), 0, 0, width, height >>

\* the array setSourceRect writes into the DrawParameters buffer
SourceRectValues(rectangle, width, height) ==
  << RectX(rectangle), RectY(rectangle), RectWidth(rectangle),
     RectHeight(rectangle), 0, 0, width, height >>

\* the event's type not looked at
EventReadyAlways(type) == TRUE

\* this.ready_ = type == 'load' in handleEvent
EventReady(type) == type = "load"

\* this.ready_ = !!(image && image.width) in setImage
ImageReady(i, dec) == i # Null /\ Width(i, dec) # 0

\* the raw image whether there is a composer or not
SourceImageRaw == image_

\* createjs.Bitmap.prototype.getSourceImage_: the composer's output is
\* written as the negated id of the image it composed (never Null)
SourceImage == IF composer_ # Null THEN 0 - 1 - composerInput ELSE image_

\* createjs.Bitmap.prototype.isVisible
BitmapIsVisibleValue == ready_ /\ BaseIsVisible

\* createjs.Bitmap.prototype.handleDetach: the calls it makes
DetachCalls ==
  (IF SourceImage # Null /\ output_ # Null
   THEN << Call("uncache", SourceImage) >> ELSE << >>)
    \o (IF composer_ # Null THEN << Call("destroy", TheComposer) >>
        ELSE << >>)

\* createjs.Bitmap.prototype.handleDetach: the fields it leaves
DetachOutput == IF SourceImage # Null /\ output_ # Null THEN Null ELSE output_

\* createjs.Bitmap.prototype.handleAttach(flag) in a state whose ready flag
\* is rdy, image is img and composer is cmp (with input inp): the composer
\* and its input afterwards, and the calls made
AttachComposes(flag, rdy) == flag # 0 /\ rdy /\ alphaMapFilter
AttachComposer(flag, rdy, img, cmp, inp) ==
  IF AttachComposes(flag, rdy) THEN << TheComposer, img >> ELSE << cmp, inp >>
\* the calls made, for the image held before the call instead of img
AttachCallsForHeld(flag, rdy, img) ==
  IF AttachComposes(flag, rdy)
  THEN << Call("applyAlphaMap", image_) >> ELSE << >>
AttachCalls(flag, rdy, img) ==
  IF AttachComposes(flag, rdy)
  THEN << Call("applyAlphaMap", img) >> ELSE << >>

initialized == phase = "initialized"

\* new createjs.Bitmap() with no value, or null: the constructor returns
\* without a call of initializeBitmap_
BitmapConstructEmpty ==
  /\ leaf = "Bitmap"
  /\ phase = "constructing"
  /\ phase' = "uninitialized"
  /\ last' = Done("construct", Null, FALSE, << >>)
  /\ UNCHANGED << fixed, hitVars, shapeVars, image_, ready_, source_, rects,
                  drawValues_, bitmapBox, composer_, composerInput, output_,
                  nominalBounds, alphaMapFilter, loaded, listeners >>

\* createjs.Bitmap.prototype.initializeBitmap_(value): value is the image i
\* itself, or (byPath) a string the ImageFactory resolves to the image i,
\* registering the leaf as a listener while i is not decoded yet
InitializeBitmap(i, byPath) ==
  /\ leaf = "Bitmap"
  /\ phase = "constructing"
  /\ phase' = "initialized"
  /\ image_' = i
  /\ listeners' = IF byPath /\ i \notin loaded
                  THEN listeners \cup {i} ELSE listeners
  /\ LET width == Width(i, loaded)
         height == Height(i, loaded)
     IN  /\ ready_' = (width # 0)
         /\ IF source_ = Null
            THEN /\ source_' = OwnRect
                 /\ rects' = [rects EXCEPT ![OwnRect] =
                                << 0, 0, width, height >>]
            ELSE UNCHANGED << source_, rects >>
         /\ drawValues_' =
              Center(CloneFloat32Array(
                       InitialValues(rects'[source_'], width, height)),
                     width, height)
         /\ bitmapBox' = << 0, 0, width, height >>
  /\ last' = Done("initialize", i, FALSE,
                  IF byPath THEN << Call("get", i) >> ELSE << >>)
  /\ UNCHANGED << fixed, hitVars, shapeVars, composer_, composerInput, output_,
                  nominalBounds, alphaMapFilter, loaded >>

\* createjs.Bitmap.prototype.setImage(image)
BitmapSetImage(i) ==
  /\ leaf = "Bitmap"
  /\ phase # "constructing"
  /\ image_' = i
  /\ ready_' = ImageReady(i, loaded)
  /\ output_' = DetachOutput
  /\ composer_' = AttachComposer(1, ready_', i, Null, Null)[1]
  /\ composerInput' = AttachComposer(1, ready_', i, Null, Null)[2]
  /\ last' = Done("setImage", i, FALSE,
                  << Call("handleDetach", 0) >> \o DetachCalls
                    \o << Call("handleAttach", 1) >>
                    \o AttachCalls(1, ready_', i))
  /\ UNCHANGED << fixed, hitVars, shapeVars, source_, rects, drawValues_, bitmapBox,
                  nominalBounds, alphaMapFilter, loaded, listeners,
                  phase >>

\* createjs.Bitmap.prototype.setSourceRect(rectangle)
BitmapSetSourceRect(r) ==
  /\ leaf = "Bitmap"
  /\ LET rectangle == rects[r]
         width == RectWidth(rectangle)
         height == RectHeight(rectangle)
         values == IF drawValues_ = NullList
                   THEN CloneFloat32Array(EmptyValues)
                   ELSE drawValues_
     IN  /\ bitmapBox' = << 0, 0, width, height >>
         /\ drawValues_' =
              StoreAll(values, 0,
                       SourceRectValues(rectangle, width, height))
  /\ source_' = r
  /\ last' = Done("setSourceRect", r, FALSE, << >>)
  /\ UNCHANGED << fixed, hitVars, shapeVars, image_, ready_, rects, composer_,
                  composerInput, output_, nominalBounds, alphaMapFilter,
                  loaded, listeners, phase >>

\* the listener left registered
RemoveListenersSkipped(i) == << >>

\* createjs.ImageFactory.removeListeners(image, this) in handleEvent
RemoveListeners(i) == << Call("removeListeners", i) >>

\* createjs.Bitmap.prototype.handleEvent(event): event.target is the image
\* i; a 'load' event is fired once the image is decoded
BitmapHandleEvent(type, i) ==
  /\ leaf = "Bitmap"
  /\ phase # "constructing"
  /\ i \in listeners
  /\ type = "load" \/ i \notin loaded
  /\ listeners' = listeners \ {i}
  /\ loaded' = IF type = "load" THEN loaded \cup {i} ELSE loaded
  /\ ready_' = EventReady(type)
  /\ IF source_ = Null \/ ~ready_'
     THEN /\ image_' = Null
          /\ last' = Done(type, i, FALSE, RemoveListeners(i))
          /\ UNCHANGED << rects, drawValues_, bitmapBox, composer_,
                          composerInput >>
     ELSE IF drawValues_ = NullList
     THEN \* drawValues[0] = 0 of null: a TypeError
          /\ rects' = [rects EXCEPT ![source_] =
                         << RectX(@), RectY(@), Width(i, loaded'),
                            Height(i, loaded') >>]
          /\ last' = Done(type, i, TRUE, RemoveListeners(i))
          /\ UNCHANGED << image_, drawValues_, bitmapBox, composer_,
                          composerInput >>
     ELSE LET width == Width(i, loaded')
              height == Height(i, loaded')
              dv == StoreAll(drawValues_, 0,
                             << 0, 0, width, height, 0, 0 >>)
          IN  /\ rects' = [rects EXCEPT ![source_] =
                             << RectX(@), RectY(@), width, height >>]
              /\ drawValues_' =
                   StoreAll(Center(dv, width, height), 6,
                            << width, height >>)
              /\ bitmapBox' = << 0, 0, width, height >>
              /\ composer_' =
                   AttachComposer(1, TRUE, image_, composer_,
                                  composerInput)[1]
              /\ composerInput' =
                   AttachComposer(1, TRUE, image_, composer_,
                                  composerInput)[2]
              /\ last' = Done(type, i, FALSE,
                              RemoveListeners(i)
                                \o << Call("handleAttach", 1) >>
                                \o AttachCalls(1, TRUE, image_))
              /\ UNCHANGED image_
  /\ UNCHANGED << fixed, hitVars, shapeVars, source_, output_, nominalBounds,
                  alphaMapFilter, phase >>

\* createjs.Bitmap.prototype.handleAttach(flag)
BitmapHandleAttach(flag) ==
  /\ leaf = "Bitmap"
  /\ phase # "constructing"
  /\ composer_' = AttachComposer(flag, ready_, image_, composer_,
                                 composerInput)[1]
  /\ composerInput' = AttachComposer(flag, ready_, image_, composer_,
                                     composerInput)[2]
  /\ last' = Done("handleAttach", flag, FALSE,
                  AttachCalls(flag, ready_, image_))
  /\ UNCHANGED << fixed, hitVars, shapeVars, image_, ready_, source_, rects,
                  drawValues_, bitmapBox, output_, nominalBounds,
                  alphaMapFilter, loaded, listeners, phase >>

\* createjs.Bitmap.prototype.handleDetach
BitmapHandleDetach ==
  /\ leaf = "Bitmap"
  /\ phase # "constructing"
  /\ output_' = DetachOutput
  /\ composer_' = Null
  /\ composerInput' = Null
  /\ last' = Done("handleDetach", 0, FALSE, DetachCalls)
  /\ UNCHANGED << fixed, hitVars, shapeVars, image_, ready_, source_, rects,
                  drawValues_, bitmapBox, nominalBounds, alphaMapFilter,
                  loaded, listeners, phase >>

\* createjs.Bitmap.prototype.removeAllChildren
BitmapRemoveAllChildren ==
  /\ leaf = "Bitmap"
  /\ phase # "constructing"
  /\ output_' = DetachOutput
  /\ composer_' = Null
  /\ composerInput' = Null
  /\ image_' = Null
  /\ source_' = Null
  /\ ready_' = FALSE
  /\ last' = Done("removeAllChildren", 0, FALSE,
                  << Call("handleDetach", 0) >> \o DetachCalls)
  /\ UNCHANGED << fixed, hitVars, shapeVars, rects, drawValues_, bitmapBox,
                  nominalBounds, alphaMapFilter, loaded, listeners,
                  phase >>

\* createjs.Bitmap.prototype.isVisible
BitmapIsVisible ==
  /\ leaf = "Bitmap"
  /\ phase # "constructing"
  /\ last' = Done("isVisible", IF BitmapIsVisibleValue THEN 1 ELSE 0, FALSE,
                  << >>)
  /\ UNCHANGED << fixed, hitVars, shapeVars, bitmapVars >>

\* createjs.Bitmap.prototype.paintObject(renderer): the image it hands to
\* renderer.drawPartial
BitmapPaintObject ==
  /\ leaf = "Bitmap"
  /\ phase # "constructing"
  /\ last' = Done("paintObject", 0, FALSE,
                  << Call("drawPartial", SourceImage) >>)
  /\ UNCHANGED << fixed, hitVars, shapeVars, bitmapVars >>

BitmapNext ==
  \/ BitmapConstructEmpty
  \/ \E i \in Images, byPath \in BOOLEAN : InitializeBitmap(i, byPath)
  \/ \E i \in Images \cup {Null} : BitmapSetImage(i)
  \/ \E r \in UserRects : BitmapSetSourceRect(r)
  \/ \E type \in {"load", "error"}, i \in Images : BitmapHandleEvent(type, i)
  \/ \E flag \in BitmapFlags : BitmapHandleAttach(flag)
  \/ BitmapHandleDetach
  \/ BitmapRemoveAllChildren
  \/ BitmapIsVisible
  \/ BitmapPaintObject

\* ================================================================== Spec
\* a leaf after new createjs.Shape(graphics), or a Bitmap inside its
\* constructor, createjs.DisplayObject.call(this) done: the constructor
\* goes on to initializeBitmap_ when it is given a value, and the constructor
\* of a generated subclass sets a source rectangle before it does
Init ==
  /\ leaf \in {"Shape", "Bitmap"}
  /\ twin = NullList
  /\ hitTestPoint_ = NullList
  /\ hitTestResult_ = Null
  /\ graphics_ \in (IF leaf = "Shape" THEN Graphics ELSE {Null})
  /\ masks_ = NullList
  /\ owners = NullList
  /\ compositionId = 0
  /\ shapeBox = EmptyBox
  /\ cached = {}
  /\ image_ = Null
  /\ ready_ = FALSE
  /\ source_ = Null
  /\ rects = [r \in Rects |->
                IF r \in UserRects THEN UserRect(r) ELSE << 0, 0, 0, 0 >>]
  /\ drawValues_ = NullList
  /\ bitmapBox = EmptyBox
  /\ composer_ = Null
  /\ composerInput = Null
  /\ output_ = Null
  /\ nominalBounds \in (IF leaf = "Bitmap" THEN NominalChoices
                         ELSE {NullList})
  /\ alphaMapFilter \in (IF leaf = "Bitmap" THEN BOOLEAN ELSE {FALSE})
  /\ loaded \in (IF leaf = "Bitmap" THEN SUBSET Images ELSE {{}})
  /\ listeners = {}
  /\ phase = "constructing"
  /\ last = [op |-> "new", arg |-> 0, threw |-> FALSE, calls |-> << >>,
             afterAttach |-> FALSE]

Next == ShapeNext \/ BitmapNext

Spec == Init /\ [][Next]_vars

\* what the first eight DrawParameters slots are said to be a function of,
\* and the slots
PackerInputs ==
  << rects[source_], Width(image_, loaded), Height(image_, loaded),
     nominalBounds >>
PackerSlots == SubSeq(drawValues_, 1, 8)
HasPacked == drawValues_ # NullList /\ image_ # Null /\ source_ # Null

\* a second leaf, which has been through the same calls as this one, is left
\* as it is now while this one goes on
TwinStops ==
  /\ leaf = "Bitmap"
  /\ twin = NullList
  /\ HasPacked
  /\ twin' = << PackerInputs, PackerSlots >>
  /\ UNCHANGED << leaf, hitVars, shapeVars, bitmapVars, last >>

NextTwin == Next \/ TwinStops

\* two leaves that share the images
SpecTwin == Init /\ [][NextTwin]_vars

\* ===================================================== USE_PIXEL_TEST
\* the display object itself, which a hit test returns for a hit
This == 1

\* the points of the hit-test queries: steps of 2 along the x axis
Points == { << 2 * k, 0 >> : k \in 0 .. MaxStep }

\* dx * dx + dy * dy
SqDist(p, q) ==
  (p[1] - q[1]) * (p[1] - q[1]) + (p[2] - q[2]) * (p[2] - q[2])

\* "if (this.hitTestPoint_) { ... if (dx * dx + dy * dy <= 4)": the query
\* is answered from the memo
Memoized(point) ==
  hitTestPoint_ # NullList /\ SqDist(hitTestPoint_, point) <= 4

\* the record of a hit test: what the base class answered, the pixel
\* readings made, and what the method returned
HitTestDone(point, object, threw, samples, result) ==
  Done("hitTestObject", point, threw,
       << Call("base", object) >> \o samples \o << Call("return", result) >>)

\* createjs.Shape.prototype.hitTestObject(point, types, bubble): object is
\* what createjs.DisplayObject.prototype.hitTestObject answers, pixel what
\* graphics.hitTestObject(local) answers
ShapeHitTestObject(point, object, pixel) ==
  /\ leaf = "Shape"
  /\ IF object # Null /\ graphics_ # Null
     THEN IF Memoized(point)
          THEN /\ UNCHANGED hitVars
               /\ last' = HitTestDone(point, object, FALSE, << >>,
                                      hitTestResult_)
          ELSE /\ hitTestPoint_' = point
               /\ hitTestResult_' = IF pixel THEN object ELSE Null
               /\ last' = HitTestDone(point, object, FALSE,
                                      << Call("sample", graphics_) >>,
                                      hitTestResult_')
     ELSE /\ UNCHANGED hitVars
          /\ last' = HitTestDone(point, object, FALSE, << >>, object)
  /\ UNCHANGED << fixed, shapeVars, bitmapVars >>

\* createjs.Bitmap.prototype.hitTestObject(point, types, bubble): object is
\* what the base class answers, pixel whether the pixel read is opaque;
\* context.drawImage(null, ...) is a TypeError
BitmapHitTestObject(point, object, pixel) ==
  /\ leaf = "Bitmap"
  /\ phase # "constructing"
  /\ IF object # Null
     THEN IF Memoized(point)
          THEN /\ UNCHANGED hitVars
               /\ last' = HitTestDone(point, object, FALSE, << >>,
                                      hitTestResult_)
          ELSE IF image_ = Null
          THEN /\ hitTestPoint_' = point
               /\ UNCHANGED hitTestResult_
               /\ last' = HitTestDone(point, object, TRUE, << >>, Null)
          ELSE /\ hitTestPoint_' = point
               /\ hitTestResult_' = IF pixel THEN object ELSE Null
               /\ last' = HitTestDone(point, object, FALSE,
                                      << Call("sample", image_) >>,
                                      hitTestResult_')
     ELSE /\ UNCHANGED hitVars
          /\ last' = HitTestDone(point, object, FALSE, << >>, object)
  /\ UNCHANGED << fixed, shapeVars, bitmapVars >>

\* createjs.Graphics.hitTestObject(local): the pixel of the geometry at a
\* point is painted where the point is inside the box of the geometry,
\* unless the path is empty (the shape is not transformed, so that local is
\* the point)
GraphicsHitTest(g, point) ==
  /\ ~GraphicsIsEmpty(g)
  /\ GraphicsBox(g)[1] <= point[1] /\ point[1] < GraphicsBox(g)[3]
  /\ GraphicsBox(g)[2] <= point[2] /\ point[2] < GraphicsBox(g)[4]

\* the point of the image that Bitmap.hitTestObject draws to its 1x1 canvas:
\* the point moved by the origin of the source rectangle
LocalPoint(point) ==
  IF source_ # Null
  THEN << point[1] + RectX(rects[source_]), point[2] + RectY(rects[source_]) >>
  ELSE point

\* pixels.data[3] of the pixel read back: the images are opaque, so that the
\* pixel is opaque where the point drawn is inside the image
ImageHitTest(i, point) ==
  /\ 0 <= point[1] /\ point[1] < Width(i, loaded)
  /\ 0 <= point[2] /\ point[2] < Height(i, loaded)

HitTestNext ==
  \/ \E point \in Points, object \in {Null, This} :
       ShapeHitTestObject(point, object, GraphicsHitTest(graphics_, point))
  \/ \E point \in Points, object \in {Null, This} :
       BitmapHitTestObject(point, object,
                           ImageHitTest(image_, LocalPoint(point)))

NextPixelTest == Next \/ HitTestNext

\* the leaves hit-tested: Bitmaps without nominal bounds and without an
\* alpha-map filter, neither of which hitTestObject reads
InitPixelTest == Init /\ nominalBounds = NullList /\ ~alphaMapFilter

\* the leaves in a build with createjs.USE_PIXEL_TEST
SpecPixelTest == InitPixelTest /\ [][NextPixelTest]_vars

\* ================================================================ claims
\* the calls of a given name among those the last call made
CallsNamed(rec, name) ==
  { k \in 1 .. Len(rec.calls) : rec.calls[k][1] = name }

\* C1: no Graphics object holds a render cache that the Shape built in
\* handleAttach once the Shape refers to it no longer, neither as its
\* geometry nor as one of its mask consumers: replacing the geometry
\* releases the cache of the geometry replaced.
C1_ReplacedGeometryUncached ==
  leaf = "Shape" =>
    \A g \in cached : g = graphics_ \/ g \in Range(ListOf(masks_))

\* C2: a handleDetach() that follows a handleAttach(f) with f non-zero
\* leaves nothing that the attach created alive (Shape: the geometry and
\* every mask consumer cached by the attach are uncached and the references
\* are null; Bitmap: the composer is destroyed, by one call, output_ is null
\* and the image is kept), and a handleDetach() that follows a
\* handleDetach() makes no call and changes no field.
C2_DetachReleasesOnce ==
  [][ /\ ( /\ last.op = "handleAttach" /\ last.arg # 0 /\ ~last.threw
           /\ last'.op = "handleDetach" )
         => /\ leaf = "Shape" =>
                 /\ graphics_' = Null /\ masks_' = NullList
                 /\ \A k \in CallsNamed(last, "cache") :
                      /\ last.calls[k][2] \notin cached'
                      /\ Call("uncache", last.calls[k][2])
                           \in Range(last'.calls)
            /\ leaf = "Bitmap" =>
                 /\ composer_' = Null /\ output_' = Null
                 /\ image_' = image_
                 /\ Cardinality(CallsNamed(last', "destroy"))
                      = (IF composer_ # Null THEN 1 ELSE 0)
      /\ (last.op = "handleDetach" /\ last'.op = "handleDetach")
         => /\ last'.calls = << >>
            /\ UNCHANGED << shapeVars, bitmapVars >>
    ]_vars

\* C2, its case on a Bitmap: a detach right after an attach destroyed the
\* composer the attach had made
C2_DetachedAfterAttach ==
  /\ leaf = "Bitmap"
  /\ last.op = "handleDetach" /\ last.afterAttach
  /\ Call("destroy", TheComposer) \in Range(last.calls)
  /\ image_ # Null

\* C2, its case on a Shape: a detach right after an attach uncached the
\* geometry and a mask consumer
C2_ShapeDetachedAfterAttach ==
  /\ leaf = "Shape"
  /\ last.op = "handleDetach" /\ last.afterAttach
  /\ Len(last.calls) = 2

\* C3: no call on a Shape ends in a TypeError, whatever calls came before.
C3_ShapeNeverThrows == leaf = "Shape" => ~last.threw

\* C4: setImage(img) on an initialized Bitmap, img decoded and of other
\* dimensions than the image held before, leaves the bounding box at
\* (0, 0, img.width, img.height) and slots 6..7 at (img.width, img.height).
C4_SetImageRecomputes ==
  [][ ( /\ last'.op = "setImage" /\ initialized
        /\ last'.arg # Null /\ last'.arg \in loaded
        /\ << Width(last'.arg, loaded), Height(last'.arg, loaded) >>
             # << Width(image_, loaded), Height(image_, loaded) >> )
      => LET w == Width(last'.arg, loaded)
             h == Height(last'.arg, loaded)
         IN  /\ bitmapBox' = << 0, 0, w, h >>
             /\ drawValues_'[7] = w /\ drawValues_'[8] = h
    ]_vars

\* C5: right after initializeBitmap_ with an image of width w and height h
\* the bounding box is (0, 0, w, h) and slots 6..7 are (w, h); if there was
\* no source rectangle before, the source rectangle is (0, 0, w, h), and if
\* there are no nominal bounds either the buffer is
\* [0, 0, w, h, 0, 0, w, h, 0, 0, 0, 0].
C5_InitializeSetsBoxAndValues ==
  [][ last'.op = "initialize"
      => LET w == Width(image_', loaded')
             h == Height(image_', loaded')
         IN  /\ image_' = last'.arg
             /\ bitmapBox' = << 0, 0, w, h >>
             /\ drawValues_'[7] = w /\ drawValues_'[8] = h
             /\ source_ = Null
                  => /\ source_' # Null
                     /\ rects'[source_'] = << 0, 0, w, h >>
                     /\ nominalBounds = NullList
                          => drawValues_'
                               = << 0, 0, w, h, 0, 0, w, h, 0, 0, 0, 0 >>
    ]_vars

\* C5, its case: a decoded image was initialized with no source rectangle
\* set before and no nominal bounds
C5_InitializedFromImage ==
  /\ last.op = "initialize" /\ ready_
  /\ source_ = OwnRect /\ nominalBounds = NullList
  /\ drawValues_[7] = NaturalWidth(image_)

\* an offset obeys the centering law for the difference d between a nominal
\* dimension and the image's: the floor of d / 2 if d is positive, else 0
Centered(offset, d) ==
  IF d > 0 THEN 2 * offset <= d /\ d < 2 * offset + 2 ELSE offset = 0

C7_PackerIsAFunction ==
  (twin # NullList /\ HasPacked /\ PackerInputs = twin[1])
    => PackerSlots = twin[2]

\* C8: right after setSourceRect(r), in any state, getSourceRect() is r, the
\* bounding box is (0, 0, r.width, r.height), slots 0..3 are
\* (r.x, r.y, r.width, r.height) and slots 6..7 are (r.width, r.height).
C8_SetSourceRect ==
  last.op = "setSourceRect"
  => LET r == rects[last.arg]
     IN  /\ source_ = last.arg
         /\ bitmapBox = << 0, 0, RectWidth(r), RectHeight(r) >>
         /\ SubSeq(drawValues_, 1, 4) = r
         /\ SubSeq(drawValues_, 7, 8) = << RectWidth(r), RectHeight(r) >>

\* C8, its cases: setSourceRect was called on a leaf that initializeBitmap_
\* has not run on, and on a leaf holding an image of other dimensions
C8_SourceRectSetBeforeInitialize ==
  last.op = "setSourceRect" /\ ~initialized /\ RectX(rects[source_]) # 0

C8_SourceRectSetOnImage ==
  /\ last.op = "setSourceRect" /\ initialized /\ ready_
  /\ RectWidth(rects[source_]) # Width(image_, loaded)

\* C9: whenever a constructed Bitmap has a DrawParameters buffer, the
\* buffer has 12 slots.
C9_TwelveSlots ==
  (phase # "constructing" /\ drawValues_ # NullList)
    => Len(drawValues_) = 12

\* C10: an event of another type than 'load' leaves the Bitmap not ready
\* and without image, so that isVisible() is false; the source rectangle,
\* the DrawParameters and the bounding box are as before, and no attach is
\* made.
C10_ErrorEvent ==
  [][ last'.op = "error"
      => /\ ~ready_' /\ image_' = Null
         /\ ~(ready_' /\ BaseIsVisible)
         /\ UNCHANGED << source_, rects, drawValues_, bitmapBox, composer_,
                         composerInput >>
         /\ CallsNamed(last', "handleAttach") = {}
         /\ CallsNamed(last', "applyAlphaMap") = {}
    ]_vars

\* C10, its case: the load of an image failed on a leaf that has a source
\* rectangle and a buffer
C10_ErrorReceived ==
  /\ last.op = "error"
  /\ drawValues_ # NullList /\ source_ # Null
  /\ ~ready_ /\ image_ = Null

\* C11: when a Bitmap that has a source rectangle has handled a 'load' event
\* for an image of width w and height h, the leaf is ready, its source
\* rectangle is (0, 0, w, h), slots 0..3 are (0, 0, w, h), slots 6..7 are
\* (w, h), the bounding box is (0, 0, w, h), and the last thing the handler
\* did is handleAttach(1).
C11_LoadRebuilds ==
  [][ (last'.op = "load" /\ source_ # Null)
      => LET w == Width(last'.arg, loaded')
             h == Height(last'.arg, loaded')
         IN  /\ ~last'.threw
             /\ ready_'
             /\ rects'[source_'] = << 0, 0, w, h >>
             /\ SubSeq(drawValues_', 1, 4) = << 0, 0, w, h >>
             /\ SubSeq(drawValues_', 7, 8) = << w, h >>
             /\ bitmapBox' = << 0, 0, w, h >>
             /\ Call("handleAttach", 1) \in Range(last'.calls)
    ]_vars

\* C12: every event handled by a Bitmap makes exactly one call of
\* removeListeners, for the event's target image and before anything else,
\* and leaves the leaf unregistered on that image: for a 'load' as for any
\* other type, with a source rectangle or without.
C12_OneDeregistration ==
  [][ last'.op \in {"load", "error"}
      => /\ Cardinality(CallsNamed(last', "removeListeners")) = 1
         /\ last'.calls[1] = Call("removeListeners", last'.arg)
         /\ last'.arg \notin listeners'
    ]_vars

\* C12, its case: a 'load' event reached a leaf that has lost its source
\* rectangle
C12_LoadWithoutSource ==
  /\ last.op = "load" /\ source_ = Null
  /\ Len(last.calls) = 1

\* C13: a Bitmap that is ready holds an image.
C13_ReadyImpliesImage ==
  (leaf = "Bitmap" /\ ready_) => image_ # Null

\* C14: setGraphics(g) on a Shape without owners, or with owners and without
\* a composition, changes no field of the Shape (geometry, bounding box,
\* mask list, caches) and marks nothing dirty.
C14_SetGraphicsNoOp ==
  [][ ( /\ last'.op = "setGraphics"
        /\ owners = NullList \/ compositionId = 0 )
      => /\ UNCHANGED shapeVars
         /\ last'.calls = << >>
    ]_vars

\* C14, its case: another geometry was given to a Shape that has an owner
\* and no composition
C14_IgnoredWithOwners ==
  /\ last.op = "setGraphics" /\ last.arg # Null /\ last.arg # graphics_
  /\ owners # NullList /\ compositionId = 0

\* C15: right after setGraphics(g), g not null, on a Shape with owners and a
\* composition, the geometry is g, the bounding box is g's box, and the
\* calls made are one mark for each owner and nothing else.
C15_SetGraphicsMarksOwners ==
  ( /\ last.op = "setGraphics" /\ last.arg # Null
    /\ owners # NullList /\ compositionId # 0 )
  => /\ graphics_ = last.arg
     /\ shapeBox = GraphicsBox(last.arg)
     /\ Len(last.calls) = Len(owners)
     /\ \A k \in 1 .. Len(owners) :
          Cardinality({ j \in 1 .. Len(last.calls) :
                          last.calls[j] = Call("markOwner", owners[k]) }) = 1

\* C15, its case: the geometry of a mask with an owner was replaced
C15_MaskReplaced ==
  /\ last.op = "setGraphics" /\ last.arg # Null
  /\ owners # NullList /\ compositionId # 0
  /\ Len(last.calls) = Len(owners)

\* C17: every layout call on a Shape, in any state, calls the base layout
\* and returns what the base layout returns.
C17_LayoutDelegates ==
  (leaf = "Shape" /\ last.op = "layout")
    => \E k \in CallsNamed(last, "layout") :
         last.arg = BaseLayout(last.calls[k][2])

\* C18: layout on a Shape with a geometry: if the geometry says it is dirty,
\* the Shape is marked with DIRTY_SHAPE, once and before the base layout is
\* called, and its bounding box is the geometry's box; if not, layout marks
\* nothing and the bounding box is as before.
C18_LayoutRefreshes ==
  [][ (last'.op = "layout" /\ graphics_ # Null)
      => IF Call("isDirty", 1) \in Range(last'.calls)
         THEN /\ Len(last'.calls) = 3
              /\ last'.calls[2] = Call("setDirty", DIRTY_SHAPE)
              /\ last'.calls[3][1] = "layout"
              /\ shapeBox' = GraphicsBox(graphics_)
         ELSE /\ CallsNamed(last', "setDirty") = {}
              /\ shapeBox' = shapeBox
    ]_vars

\* C18, its case: the geometry was dirty and the layout gave the Shape the
\* box of its geometry
C18_DirtyGeometryLaidOut ==
  /\ last.op = "layout"
  /\ Call("setDirty", DIRTY_SHAPE) \in Range(last.calls)
  /\ shapeBox = GraphicsBox(graphics_)

\* C19: setImage(img) detaches first, so that the composer held before is
\* destroyed (and the image a renderer caches is released) before anything
\* else is done; then the image is img and the ready flag says whether img
\* is decoded; then it attaches with flag 1: with an alpha-map filter and a
\* decoded img the composer held afterwards has been applied to img and to
\* no other image, and otherwise no composer is held.
C19_SetImageOrder ==
  [][ last'.op = "setImage"
      => LET calls == last'.calls
             img == last'.arg
             attach == CHOOSE k \in CallsNamed(last', "handleAttach") : TRUE
         IN  /\ calls[1] = Call("handleDetach", 0)
             /\ Cardinality(CallsNamed(last', "handleAttach")) = 1
             /\ calls[attach] = Call("handleAttach", 1)
             /\ SubSeq(calls, 2, attach - 1) = DetachCalls
             /\ composer_ # Null
                  => Call("destroy", TheComposer)
                       \in Range(SubSeq(calls, 2, attach - 1))
             /\ image_' = img
             /\ ready_' = (img # Null /\ img \in loaded)
             /\ IF alphaMapFilter /\ img # Null /\ img \in loaded
                THEN /\ composer_' = TheComposer /\ composerInput' = img
                     /\ SubSeq(calls, attach + 1, Len(calls))
                          = << Call("applyAlphaMap", img) >>
                ELSE /\ composer_' = Null
                     /\ attach = Len(calls)
    ]_vars

\* C19, its case: the image of a leaf holding a composer was replaced by a
\* decoded image, and a composer was made for it
C19_ImageSwappedUnderComposer ==
  /\ last.op = "setImage"
  /\ Call("destroy", TheComposer) \in Range(last.calls)
  /\ Call("applyAlphaMap", last.arg) \in Range(last.calls)
  /\ composerInput = image_

\* C20: when a Bitmap that holds an image and a source rectangle has handled
\* a 'load' event, it is ready only if the image it holds is decoded, and
\* its bounding box and slots 6..7 have the dimensions of the image it holds.
C20_LoadDescribesHeldImage ==
  [][ (last'.op = "load" /\ source_ # Null /\ image_ # Null)
      => LET w == Width(image_', loaded')
             h == Height(image_', loaded')
         IN  /\ ready_' = ImageReady(image_', loaded')
             /\ bitmapBox' = << 0, 0, w, h >>
             /\ SubSeq(drawValues_', 7, 8) = << w, h >>
    ]_vars

\* a hit test passed the bounding-box test, read a pixel, returned
PassedBox(rec) == rec.calls[1] = Call("base", This)
Sampled(rec) == CallsNamed(rec, "sample") # {}
Returned(rec) == rec.calls[Len(rec.calls)][2]

\* C16: of two hit tests made one right after the other on a leaf that has
\* something to sample, both passing the bounding-box test: if their points
\* are at a squared distance of 4 or less, the second reads no pixel and
\* returns what the first returned; if they are further apart, the second
\* reads the pixel.
C16_ConsecutiveQueriesMemoized ==
  [][ ( /\ last.op = "hitTestObject" /\ last'.op = "hitTestObject"
        /\ PassedBox(last) /\ PassedBox(last')
        /\ ~last.threw /\ ~last'.threw
        /\ leaf = "Shape" => graphics_ # Null )
      => IF SqDist(last.arg, last'.arg) <= 4
         THEN ~Sampled(last') /\ Returned(last') = Returned(last)
         ELSE Sampled(last')
    ]_vars

\* C21: handleAttach(flag) on a Bitmap with flag zero, or on a Bitmap that
\* is not ready, changes no field and makes no call; a composer comes to
\* exist only in a call that attaches with a non-zero flag, the leaf ready
\* and an alpha-map filter set, and no composer is left by a call that
\* detaches and does not attach so; paintObject hands drawPartial the
\* composer's output if there is a composer, and the raw image if not.
C21_AttachAndPaint ==
  [][ leaf = "Bitmap"
      => /\ ( /\ last'.op = "handleAttach"
              /\ last'.arg = 0 \/ ~ready_ )
            => /\ UNCHANGED << bitmapVars, hitVars >>
               /\ last'.calls = << >>
         /\ (composer_ = Null /\ composer_' # Null)
            => /\ \/ last'.op = "handleAttach" /\ last'.arg # 0
                  \/ Call("handleAttach", 1) \in Range(last'.calls)
               /\ ready_' /\ alphaMapFilter
               /\ Call("applyAlphaMap", image_') \in Range(last'.calls)
         /\ ( /\ \/ last'.op = "handleDetach"
                 \/ Call("handleDetach", 0) \in Range(last'.calls)
              /\ CallsNamed(last', "applyAlphaMap") = {} )
            => composer_' = Null
         /\ last'.op = "paintObject"
            => last'.calls
                 = << Call("drawPartial",
                           IF composer_ # Null THEN 0 - 1 - composerInput
                           ELSE image_) >>
    ]_vars

\* C21, its case: a Bitmap holding a composer was painted
C21_PaintedThroughComposer ==
  /\ last.op = "paintObject" /\ composer_ # Null
  /\ last.calls[1][2] # image_

FreshResult ==
  IF leaf = "Shape"
  THEN IF GraphicsHitTest(graphics_, hitTestPoint_) THEN This ELSE Null
  ELSE IF ImageHitTest(image_, LocalPoint(hitTestPoint_)) THEN This
       ELSE Null

\* C23: a hit test answered from the memo, on a leaf holding a geometry or
\* an image, returns what reading the pixel at the memoized point would
\* answer for the geometry, or the image and source rectangle, held now.
C23_MemoNotStale ==
  ( /\ last.op = "hitTestObject" /\ ~last.threw
    /\ PassedBox(last) /\ ~Sampled(last)
    /\ IF leaf = "Shape" THEN graphics_ # Null ELSE image_ # Null )
  => Returned(last) = FreshResult

====
